---- MODULE Spec2Model ----
(***************************************************************************)
(* Model of examples/wss_market.rs: the driver `main` (catalog fetch,      *)
(* pick_liquid_market, derive_asset_ids, subscribe, bounded next_event     *)
(* loop) and its two pure helpers.                                         *)
(*                                                                         *)
(* Decimal values are modelled as integers (only their order is used).     *)
(* Option<T> is the record [some, val]; Result is a string tag.            *)
(***************************************************************************)
EXTENDS Integers, Sequences, FiniteSets, TLC

VARIABLES pc, min_liquidity, response, eligible, clock, idx, market,
          derived, asset_ids, channel, wire, rd, iter, out, calls, ret

(* pc            position of main: "fetch" (l.28), "select" (l.29),          *)
(*               "resolve" (l.36), "subscribe" (l.45), "loop" (l.49),       *)
(*               "done" (returned)                                          *)
(* min_liquidity the floor of l.17-20                                       *)
(* response      response.data of l.28                                      *)
(* eligible, clock, idx   locals of pick_liquid_market (l.88, l.97, l.101)  *)
(* market        the selected market (l.29)                                 *)
(* derived       what derive_asset_ids returned (l.36)                      *)
(* asset_ids     l.36                                                       *)
(* channel       state of the WssMarketClient (l.44)                        *)
(* wire, rd      the frames of the transport and how many were consumed     *)
(* iter          iterations of the loop of l.49 begun so far                *)
(* out           the lines printed for events (l.51-76)                     *)
(* calls         the calls main made, in order, with their outcome          *)
(* ret           "running", "Ok" or the error main returned                 *)

vars == <<pc, min_liquidity, response, eligible, clock, idx, market,
          derived, asset_ids, channel, wire, rd, iter, out, calls, ret>>

-----------------------------------------------------------------------------
(* Bounds of the model *)

MaxMarkets == 3
MaxLiquidity == 1
MaxNanos == 4
UsizeBits == 2
MaxIds == 2
MaxTokens == 3
MaxSlack == 1

(* Program constants *)

LOOP_ITERATIONS == 20
DEFAULT_MIN_LIQUIDITY == 1000000

-----------------------------------------------------------------------------
(* Values *)

SeqsUpTo(S, n) == UNION {[1..k -> S] : k \in 0..n}

None == [some |-> FALSE, val |-> 0]
Some(v) == [some |-> TRUE, val |-> v]

NoIds == [some |-> FALSE, val |-> <<>>]
SomeIds(v) == [some |-> TRUE, val |-> v]

UnwrapOrDefault(opt) == IF opt.some THEN opt.val ELSE 0

Market(cid, liq, ids, toks) ==
    [condition_id |-> cid, liquidity_num |-> liq,
     clob_token_ids |-> ids, tokens |-> toks]

Token(id) == [token_id |-> id]

NoMarket == Market(0, None, <<>>, <<>>)

-----------------------------------------------------------------------------
(* Inputs *)

\* POLY_WSS_MIN_LIQUIDITY after parsing: absent/invalid (None) or a decimal.
EnvFloors == {None} \cup {Some(f) : f \in -1..MaxLiquidity}

LiquidityValues == (-1..MaxLiquidity) \cup {DEFAULT_MIN_LIQUIDITY}
Liquidities == {None} \cup {Some(v) : v \in LiquidityValues}

\* SystemTime::now().duration_since(UNIX_EPOCH): Ok(nanos) or Err.
ClockReads == {None} \cup {Some(n) : n \in 0..MaxNanos}

\* Catalog pages for the selector: records differ in liquidity, the
\* condition id is the position in the page.
SelectPages ==
    UNION {{[i \in 1..k |-> Market(i, l[i], <<"A">>, <<>>)] : l \in [1..k -> Liquidities]}
           : k \in 0..MaxMarkets}

\* Markets for the resolver.
PrimaryIds == {"", "A", "B"}
SecondaryIds == {"", "X", "Y"}
TokenLists == {[i \in 1..Len(s) |-> Token(s[i])] : s \in SeqsUpTo(SecondaryIds, MaxTokens)}
ResolveMarkets ==
    {Market(1, Some(DEFAULT_MIN_LIQUIDITY), ids, toks) :
        ids \in SeqsUpTo(PrimaryIds, MaxIds), toks \in TokenLists}

\* Catalog pages for the whole run of main.
MainMarkets ==
    {Market(1, l, ids, toks) :
        l \in {None, Some(DEFAULT_MIN_LIQUIDITY)},
        ids \in {<<>>, <<"A">>, <<"">>, <<"A", "B">>},
        toks \in {<<>>, <<Token("")>>, <<Token("X")>>, <<Token(""), Token("Y")>>}}
MainPages ==
    {<<>>} \cup {<<m>> : m \in MainMarkets}
    \cup {<<Market(1, Some(DEFAULT_MIN_LIQUIDITY), <<"A">>, <<>>), [m EXCEPT !.condition_id = 2]>>
          : m \in MainMarkets}

-----------------------------------------------------------------------------
(* pick_liquid_market *)


\* variant: strict comparison with the floor
EligibleMarketsStrict(markets, floor) ==
    SelectSeq(markets, LAMBDA m : UnwrapOrDefault(m.liquidity_num) > floor)

EligibleMarkets(markets, floor) ==
    SelectSeq(markets, LAMBDA m : UnwrapOrDefault(m.liquidity_num) >= floor)

\* d.as_nanos() as usize: truncation to the width of usize (scaled down)
AsUsize(n) == n % (2 ^ UsizeBits)

Seed(clk) == IF clk.some THEN AsUsize(clk.val) ELSE 0


\* variant: modulus off by one
PickIndexOffByOne(seed, n) == seed % (n + 1)

PickIndex(seed, n) == seed % n

pick_liquid_market(markets, floor, clk) ==
    LET elig == EligibleMarkets(markets, floor) IN
    IF elig = <<>>
    THEN [ok |-> FALSE, err |-> "validation: no liquid markets available",
          eligible |-> elig, idx |-> 0, market |-> NoMarket]
    ELSE LET i == PickIndex(Seed(clk), Len(elig)) IN
         [ok |-> TRUE, err |-> "", eligible |-> elig, idx |-> i,
          \* eligible[idx] panics when idx is out of range
          market |-> IF i < Len(elig) THEN elig[i + 1] ELSE NoMarket]

-----------------------------------------------------------------------------
(* derive_asset_ids *)

TokenIdsOf(tokens) == [i \in 1..Len(tokens) |-> tokens[i].token_id]


\* variant: the filter on empty identifiers is missing
KeepAllIds(ids) == ids

NonEmptyIds(ids) == SelectSeq(ids, LAMBDA id : id # "")


\* variant: the secondary tokens take precedence over the primary list
derive_asset_ids_tokens_first(m) ==
    LET ids == NonEmptyIds(TokenIdsOf(m.tokens)) IN
    IF ids # <<>> THEN SomeIds(ids)
    ELSE IF m.clob_token_ids # <<>> THEN SomeIds(m.clob_token_ids) ELSE NoIds

derive_asset_ids(m) ==
    IF m.clob_token_ids # <<>>
    THEN SomeIds(m.clob_token_ids)
    ELSE LET ids == NonEmptyIds(TokenIdsOf(m.tokens)) IN
         IF ids = <<>> THEN NoIds ELSE SomeIds(ids)

UnwrapOrElseEmpty(opt) == IF opt.some THEN opt.val ELSE <<>>


\* variant: the emptiness check of main is missing
IsEmptyIdsNever(ids) == FALSE

IsEmptyIds(ids) == ids = <<>>

-----------------------------------------------------------------------------
(* WssMarketClient: the subscription channel and its decoder *)

EVENT_TYPES == <<"price_change", "book", "tick_size_change", "last_trade">>

\* The i-th frame the transport delivers; payload stands for the
\* variant-specific fields.
Frame(i, tag) ==
    [event_type |-> tag, market |-> IF i % 3 = 0 THEN "m2" ELSE "m1", payload |-> i]

\* A stream of n frames, the p-th carrying an unrecognized tag (p = 0: none);
\* the transport disconnects after the last frame.
Wire(n, p) ==
    [i \in 1..n |-> Frame(i, IF i = p THEN "unknown"
                             ELSE EVENT_TYPES[((i - 1) % Len(EVENT_TYPES)) + 1])]

WireStreams ==
    {Wire(n, p) : n \in (LOOP_ITERATIONS - MaxSlack)..(LOOP_ITERATIONS + MaxSlack),
                  p \in 0..(LOOP_ITERATIONS + MaxSlack)}

Variant(tag) ==
    CASE tag = "price_change" -> "PriceChange"
      [] tag = "book" -> "Book"
      [] tag = "tick_size_change" -> "TickSizeChange"
      [] tag = "last_trade" -> "LastTrade"
      [] OTHER -> "?"

Decode(frame) ==
    IF Variant(frame.event_type) = "?"
    THEN [ok |-> FALSE, variant |-> "?", market |-> "", payload |-> 0]
    ELSE [ok |-> TRUE, variant |-> Variant(frame.event_type),
          market |-> frame.market, payload |-> frame.payload]

\* next_event on a stream of which rd frames were consumed.
next_event(w, n) ==
    IF n >= Len(w)
    THEN [ok |-> FALSE, variant |-> "?", market |-> "", payload |-> 0]
    ELSE Decode(w[n + 1])

-----------------------------------------------------------------------------
(* main *)

MinLiquidity(env) == IF env.some THEN env.val ELSE DEFAULT_MIN_LIQUIDITY

Call(op, ok, arg) == [op |-> op, ok |-> ok, arg |-> arg]


\* variant: the error of a step is dropped and the run goes on
PropagateIgnore(ok, next) == next

\* Early return on failure: the ? operator, and the return Err(...) of main.
Propagate(ok, next) == IF ok THEN next ELSE "done"

Outcome(ok, err) == IF ok THEN "running" ELSE err

\* The line printed by the match arm of an event.
Summary(ev) ==
    [text |-> CASE ev.variant = "PriceChange" -> "price_change for"
                [] ev.variant = "Book" -> "book"
                [] ev.variant = "TickSizeChange" -> "tick size change"
                [] ev.variant = "LastTrade" -> "last_trade",
     market |-> ev.market, payload |-> ev.payload]


\* variant: book events are not reported
HandleSkipBook(log, ev) ==
    IF ev.variant = "Book" THEN log ELSE Append(log, Summary(ev))

Handle(log, ev) == Append(log, Summary(ev))


\* variant: no break on Err
LoopExitNoBreak(n, ok) == n >= LOOP_ITERATIONS

\* variant: the stream error becomes the result of main
LoopResultErr(ok) == IF ok THEN "Ok" ELSE "transport: stream error"

\* for _ in 0..20 with break on Err
LoopExit(n, ok) == ~ok \/ n >= LOOP_ITERATIONS

LoopResult(ok) == "Ok"

Init ==
    /\ pc = "fetch"
    /\ \E env \in EnvFloors : min_liquidity = MinLiquidity(env)
    /\ response = <<>>
    /\ eligible = <<>>
    /\ clock = None
    /\ idx = 0
    /\ market = NoMarket
    /\ derived = NoIds
    /\ asset_ids = <<>>
    /\ channel = "Unsubscribed"
    /\ wire = <<>>
    /\ rd = 0
    /\ iter = 0
    /\ out = <<>>
    /\ calls = <<>>
    /\ ret = "running"

\* line 28: clob.get_markets(None, Some(&params)).await?
GetMarkets ==
    /\ pc = "fetch"
    /\ \E ok \in BOOLEAN, page \in MainPages :
         /\ ok => response' = page
         /\ ~ok => page = <<>> /\ response' = <<>>
         /\ calls' = Append(calls, Call("get_markets", ok, <<>>))
         /\ pc' = Propagate(ok, "select")
         /\ ret' = Outcome(ok, "transport: get_markets failed")
    /\ UNCHANGED <<min_liquidity, eligible, clock, idx, market, derived,
                   asset_ids, channel, wire, rd, iter, out>>

\* line 29: pick_liquid_market(&response.data, min_liquidity)?
PickLiquidMarket ==
    /\ pc = "select"
    /\ \E clk \in ClockReads :
         LET r == pick_liquid_market(response, min_liquidity, clk) IN
         /\ r.eligible = <<>> => clk = None
         /\ eligible' = r.eligible
         /\ clock' = clk
         /\ idx' = r.idx
         /\ market' = r.market
         /\ calls' = Append(calls, Call("pick_liquid_market", r.ok, <<>>))
         /\ IF r.ok /\ r.idx >= Len(r.eligible)
            THEN pc' = "done" /\ ret' = "panic: index out of bounds"
            ELSE pc' = Propagate(r.ok, "resolve") /\ ret' = Outcome(r.ok, r.err)
    /\ UNCHANGED <<min_liquidity, response, derived, asset_ids, channel,
                   wire, rd, iter, out>>

\* lines 36-42: derive_asset_ids(market).unwrap_or_else(Vec::new), is_empty check
DeriveAssetIds ==
    /\ pc = "resolve"
    /\ derived' = derive_asset_ids(market)
    /\ asset_ids' = UnwrapOrElseEmpty(derived')
    /\ calls' = Append(calls, Call("derive_asset_ids", ~IsEmptyIds(asset_ids'), <<>>))
    /\ pc' = Propagate(~IsEmptyIds(asset_ids'), "subscribe")
    /\ ret' = Outcome(~IsEmptyIds(asset_ids'),
                      "validation: failed to derive asset IDs for the selected market")
    /\ UNCHANGED <<min_liquidity, response, eligible, clock, idx, market,
                   channel, wire, rd, iter, out>>

\* lines 44-45: client.subscribe(asset_ids.clone()).await?
Subscribe ==
    /\ pc = "subscribe"
    /\ \E ok \in BOOLEAN, w \in WireStreams :
         /\ ok => wire' = w /\ channel' = "Streaming"
         /\ ~ok => w = Wire(LOOP_ITERATIONS, 0) /\ wire' = <<>> /\ channel' = "Unsubscribed"
         /\ calls' = Append(calls, Call("subscribe", ok, asset_ids))
         /\ pc' = Propagate(ok, "loop")
         /\ ret' = Outcome(ok, "transport: subscribe failed")
    /\ UNCHANGED <<min_liquidity, response, eligible, clock, idx, market,
                   derived, asset_ids, rd, iter, out>>

\* lines 49-84: one iteration of the loop; Ok(()) once it is left
NextEvent ==
    /\ pc = "loop"
    /\ LET ev == next_event(wire, rd) IN
         /\ rd' = IF rd < Len(wire) THEN rd + 1 ELSE rd
         /\ channel' = IF rd < Len(wire) THEN channel ELSE "Closed"
         /\ calls' = Append(calls, Call("next_event", ev.ok, <<>>))
         /\ out' = IF ev.ok THEN Handle(out, ev) ELSE out
         /\ iter' = iter + 1
         /\ pc' = IF LoopExit(iter + 1, ev.ok) THEN "done" ELSE "loop"
         /\ ret' = IF LoopExit(iter + 1, ev.ok) THEN LoopResult(ev.ok) ELSE ret
    /\ UNCHANGED <<min_liquidity, response, eligible, clock, idx, market,
                   derived, asset_ids, wire>>

Next ==
    \/ GetMarkets
    \/ PickLiquidMarket
    \/ DeriveAssetIds
    \/ Subscribe
    \/ NextEvent

Spec == Init /\ [][Next]_vars

-----------------------------------------------------------------------------
(* pick_liquid_market on its own: every page and floor, then one call *)

InitSelect ==
    /\ pc = "select"
    /\ \E env \in EnvFloors : min_liquidity = MinLiquidity(env)
    /\ response \in SelectPages
    /\ eligible = <<>>
    /\ clock = None
    /\ idx = 0
    /\ market = NoMarket
    /\ derived = NoIds
    /\ asset_ids = <<>>
    /\ channel = "Unsubscribed"
    /\ wire = <<>>
    /\ rd = 0
    /\ iter = 0
    /\ out = <<>>
    /\ calls = <<Call("get_markets", TRUE, <<>>)>>
    /\ ret = "running"

NextSelect == PickLiquidMarket

SpecSelect == InitSelect /\ [][NextSelect]_vars

(* derive_asset_ids on its own: every market, then one call *)

InitResolve ==
    /\ pc = "resolve"
    /\ min_liquidity = DEFAULT_MIN_LIQUIDITY
    /\ market \in ResolveMarkets
    /\ response = <<market>>
    /\ eligible = <<market>>
    /\ clock \in {None, Some(0)}
    /\ idx = 0
    /\ derived = NoIds
    /\ asset_ids = <<>>
    /\ channel = "Unsubscribed"
    /\ wire = <<>>
    /\ rd = 0
    /\ iter = 0
    /\ out = <<>>
    /\ calls = <<Call("get_markets", TRUE, <<>>), Call("pick_liquid_market", TRUE, <<>>)>>
    /\ ret = "running"

NextResolve == DeriveAssetIds

SpecResolve == InitResolve /\ [][NextResolve]_vars

-----------------------------------------------------------------------------
(* Properties *)

Called(op) == {k \in 1..Len(calls) : calls[k].op = op}
Succeeded(op) == \E k \in Called(op) : calls[k].ok
LiquidityOrZero(m) == IF m.liquidity_num.some THEN m.liquidity_num.val ELSE 0
LiquidAt(floor) == {i \in 1..Len(response) : LiquidityOrZero(response[i]) >= floor}

\* C1: pick_liquid_market returns a record of the page whose liquidity
\* (missing counted as zero) is >= the floor whenever such a record exists,
\* and fails with "no liquid markets available" otherwise; a record with
\* missing liquidity is never returned when the floor is positive.
C1_SelectContract ==
    Called("pick_liquid_market") # {} =>
        IF LiquidAt(min_liquidity) # {}
        THEN /\ ret = "running" /\ pc = "resolve"
             /\ \E i \in LiquidAt(min_liquidity) : market = response[i]
             /\ LiquidityOrZero(market) >= min_liquidity
             /\ min_liquidity > 0 => market.liquidity_num.some
        ELSE /\ ret = "validation: no liquid markets available"
             /\ pc = "done"

C1_Witness ==
    /\ pc = "resolve"
    /\ Len(response) = 3
    /\ min_liquidity = 1
    /\ ~response[1].liquidity_num.some
    /\ response[2].liquidity_num = Some(0)
    /\ response[3].liquidity_num = Some(1)
    /\ market = response[3]

\* C5: whenever the eligible subset is non-empty the computed index lies in
\* [0, |eligible|) for every clock reading, the failed reading (seed 0)
\* included, and the element at that index is what is returned.
C5_IndexInRange ==
    (Called("pick_liquid_market") # {} /\ eligible # <<>>) =>
        /\ idx >= 0 /\ idx < Len(eligible)
        /\ market = eligible[idx + 1]
        /\ ret = "running"

C5_Witness ==
    /\ pc = "resolve"
    /\ Len(eligible) = 3
    /\ clock = Some(MaxNanos)
    /\ idx = (MaxNanos % (2 ^ UsizeBits)) % 3

C5_WitnessClockError ==
    /\ pc = "resolve"
    /\ Len(eligible) >= 2
    /\ clock = None
    /\ idx = 0

\* C2: a market whose primary identifier list is non-empty resolves to
\* exactly that list, whatever the secondary tokens hold.
C2_PrimaryWins ==
    (Called("derive_asset_ids") # {} /\ market.clob_token_ids # <<>>) =>
        /\ derived.some
        /\ Len(derived.val) = Len(market.clob_token_ids)
        /\ \A k \in 1..Len(derived.val) : derived.val[k] = market.clob_token_ids[k]

C2_Witness ==
    /\ Called("derive_asset_ids") # {}
    /\ market.clob_token_ids = <<"A", "B">>
    /\ market.tokens = <<Token("X")>>
    /\ derived = SomeIds(<<"A", "B">>)

\* C3: a market whose primary list is empty resolves to the secondary
\* tokens' identifiers without the empty ones, in their order: the result
\* is the image of the non-empty positions under an increasing map.
C3_SecondaryFiltered ==
    (Called("derive_asset_ids") # {} /\ market.clob_token_ids = <<>>) =>
        LET kept == {i \in 1..Len(market.tokens) : market.tokens[i].token_id # ""}
            res == IF derived.some THEN derived.val ELSE <<>>
        IN /\ Len(res) = Cardinality(kept)
           /\ derived.some <=> kept # {}
           /\ \E f \in [1..Len(res) -> kept] :
                /\ \A a, b \in 1..Len(res) : a < b => f[a] < f[b]
                /\ \A a \in 1..Len(res) : res[a] = market.tokens[f[a]].token_id

C3_Witness ==
    /\ Called("derive_asset_ids") # {}
    /\ market.clob_token_ids = <<>>
    /\ market.tokens = <<Token("X"), Token(""), Token("Y")>>
    /\ derived = SomeIds(<<"X", "Y">>)

\* C4: with an empty primary list and no non-empty secondary identifier,
\* derive_asset_ids yields no list and the run ends with the validation
\* error, without subscribing.
C4_EmptyResolutionFails ==
    (/\ Called("derive_asset_ids") # {}
     /\ market.clob_token_ids = <<>>
     /\ \A i \in 1..Len(market.tokens) : market.tokens[i].token_id = "") =>
        /\ ~derived.some
        /\ pc = "done"
        /\ ret = "validation: failed to derive asset IDs for the selected market"
        /\ Called("subscribe") = {}

C4_Witness ==
    /\ Called("derive_asset_ids") # {}
    /\ market.clob_token_ids = <<>>
    /\ market.tokens = <<Token("")>>
    /\ pc = "done"
    /\ ~derived.some

NextEventCalls == Called("next_event")
FailedCalls == {k \in 1..Len(calls) : ~calls[k].ok}
StepRank(op) ==
    CASE op = "get_markets" -> 1
      [] op = "pick_liquid_market" -> 2
      [] op = "derive_asset_ids" -> 3
      [] op = "subscribe" -> 4
      [] op = "next_event" -> 5

\* C6: the events the loop handles are, in order, the frames the transport
\* delivered: the k-th handled event comes from the k-th frame, nothing is
\* skipped, duplicated or reordered before the loop stops.
C6_HandledInDeliveryOrder ==
    /\ Len(out) <= rd
    /\ rd <= Len(wire)
    /\ \A k \in 1..Len(out) :
         /\ out[k].payload = wire[k].payload
         /\ out[k].market = wire[k].market
         /\ out[k].text = CASE wire[k].event_type = "price_change" -> "price_change for"
                            [] wire[k].event_type = "book" -> "book"
                            [] wire[k].event_type = "tick_size_change" -> "tick size change"
                            [] wire[k].event_type = "last_trade" -> "last_trade"
                            [] OTHER -> "none"
    /\ pc = "loop" => Len(out) = rd

C6_Witness ==
    /\ pc = "done"
    /\ Len(out) = 6
    /\ Len(wire) > 6
    /\ wire[7].event_type = "unknown"
    /\ out[2].text = "book"
    /\ out[6].market = "m2"

\* C7: after a successful subscribe next_event is called at most 20 times and
\* never after a call that returned an error: the loop ends after exactly 20
\* successful events or right after the first error.
C7_BoundedLoopStopsOnError ==
    Succeeded("subscribe") =>
        /\ Cardinality(NextEventCalls) <= LOOP_ITERATIONS
        /\ \A k \in NextEventCalls : ~calls[k].ok => k = Len(calls) /\ pc = "done"
        /\ pc = "loop" => Cardinality(NextEventCalls) < LOOP_ITERATIONS
        /\ pc = "done" =>
             \/ /\ Cardinality(NextEventCalls) = LOOP_ITERATIONS
                /\ Len(out) = LOOP_ITERATIONS
             \/ ~calls[Len(calls)].ok

C7_Witness ==
    /\ pc = "done"
    /\ Succeeded("subscribe")
    /\ Cardinality(NextEventCalls) = LOOP_ITERATIONS
    /\ \A k \in NextEventCalls : calls[k].ok

C7_WitnessError ==
    /\ pc = "done"
    /\ Succeeded("subscribe")
    /\ Cardinality(NextEventCalls) = 3
    /\ ~calls[Len(calls)].ok

\* C8: the identifier list passed to subscribe is non-empty and holds no
\* empty string, whether it came from the primary list or from the tokens.
C8_SubscribedIdsNonEmpty ==
    \A k \in Called("subscribe") :
        /\ calls[k].arg # <<>>
        /\ \A j \in 1..Len(calls[k].arg) : calls[k].arg[j] # ""

\* C9: the steps run in the order fetch, select, resolve, subscribe,
\* next_event, each at most once except next_event; a step runs only after
\* every earlier step succeeded, and a failed fetch, select, resolve or
\* subscribe ends the run with that step's error.
C9_FixedOrderNoRetry ==
    /\ \A k \in 1..Len(calls) : StepRank(calls[k].op) = IF k < 5 THEN k ELSE 5
    /\ \A k \in FailedCalls : k = Len(calls) /\ pc = "done"
    /\ \A k \in FailedCalls :
         ret = CASE calls[k].op = "get_markets" -> "transport: get_markets failed"
                 [] calls[k].op = "pick_liquid_market" -> "validation: no liquid markets available"
                 [] calls[k].op = "derive_asset_ids" ->
                      "validation: failed to derive asset IDs for the selected market"
                 [] calls[k].op = "subscribe" -> "transport: subscribe failed"
                 [] OTHER -> ret
    /\ Called("subscribe") # {} => asset_ids # <<>> /\ market \in {response[i] : i \in 1..Len(response)}
    /\ Called("next_event") # {} => Succeeded("subscribe") /\ channel # "Unsubscribed"

C9_Witness ==
    /\ pc = "done"
    /\ Len(calls) = 4
    /\ calls[4] = Call("subscribe", FALSE, <<"A", "B">>)
    /\ ret = "transport: subscribe failed"

\* C10: an error of next_event is not the result of the run: once subscribe
\* succeeded main finishes with Ok(()), and only a failed fetch, selection,
\* resolution or subscribe makes the run return an error.
C10_StreamErrorNotPropagated ==
    pc = "done" =>
        /\ Succeeded("subscribe") => ret = "Ok"
        /\ ret # "Ok" =>
             /\ Called("next_event") = {}
             /\ calls[Len(calls)].op \in
                  {"get_markets", "pick_liquid_market", "derive_asset_ids", "subscribe"}
             /\ ~calls[Len(calls)].ok

C10_Witness ==
    /\ pc = "done"
    /\ ret = "Ok"
    /\ Cardinality(NextEventCalls) = 2
    /\ ~calls[Len(calls)].ok
    /\ calls[Len(calls)].op = "next_event"

====
